---- MODULE Spec2Model ----
(***************************************************************************)
(* Model of the outdoor sports planner: the time-slot scorer and selector  *)
(* (tools.py, BestTimeSelectorTool._run), the direct orchestration run     *)
(* (agent.py, generate_sports_recommendation_direct) and the process with  *)
(* its scheduler thread (main.py).                                         *)
(*                                                                         *)
(* A timestamp is the number of hours since midnight of day 0, so the      *)
(* string "YYYY-MM-DD HH:00:00" is the pair (t \div 24, t % 24); parsing   *)
(* it and taking .hour is t % 24, adding timedelta(hours=2) is t + 2.      *)
(***************************************************************************)
EXTENDS Integers, Sequences, FiniteSets, TLC

VARIABLES
    sport,        \* the sport argument of the tool call or of the run
    weather,      \* parsed weather_data / weather_result
    aqi,          \* parsed aqi_data / aqi_result (the 'aqi' figures)
    scores,       \* the value of score at the end of each loop iteration
    best_times,   \* the list returned by BestTimeSelectorTool._run
    tool_pc,      \* position of a direct call of the tool
    mode,         \* how the process was started: main() or manual_recommendation()
    chat_id,      \* os.getenv("TELEGRAM_CHAT_ID") as read by the agent
    main_pc,      \* position of the main thread
    sched_pc,     \* position of the scheduler thread
    due,          \* the 06:00 job is pending
    last_job,     \* how the last scheduled job ended
    health,       \* result of the last periodic health check
    run_pc,       \* position inside generate_sports_recommendation_direct
    caller,       \* who called the run
    trace,        \* the steps of the run executed so far
    calls,        \* the collaborator tools invoked by the run so far
    city, weather_src, aqi_src, day_type, motivation, message, delivery

toolvars == <<sport, weather, aqi, scores, best_times, tool_pc>>
procvars == <<mode, chat_id, main_pc, sched_pc, due, last_job, health>>
runvars == <<run_pc, caller, trace, calls, city, weather_src, aqi_src, day_type,
             motivation, message, delivery>>
vars == <<toolvars, procvars, runvars>>

(* ---------------------------- bounds ---------------------------------- *)
MaxSamples == 3
MaxAqi == 2

(* ------------------------ program constants --------------------------- *)
MinScore == 4
TopK == 2
SlotHours == 2
NA == -1

Min(a, b) == IF a < b THEN a ELSE b

RECURSIVE SeqsUpTo(_, _)
SeqsUpTo(S, n) ==
    IF n = 0 THEN {<<>>}
    ELSE LET shorter == SeqsUpTo(S, n - 1)
         IN shorter \cup {Append(s, x) : s \in {q \in shorter : Len(q) = n - 1}, x \in S}

(* str.lower() on the sport identifiers of the model *)
Lower(s) ==
    CASE s = "Cricket" -> "cricket"
      [] s = "CRICKET" -> "cricket"
      [] OTHER -> s

Sports == {"cricket", "Cricket", "football"}

(* datetime.fromisoformat(w['time'].replace(' ', 'T')).hour *)
HourOf(t) == t % 24

(* SlotScore with the AQI test written <= 100 instead of < 100 *)
SlotScoreAqiInclusive(sp, w, i, aq) ==
    LET hour == HourOf(w.time)
        s1 == IF (6 <= hour /\ hour <= 10) \/ (16 <= hour /\ hour <= 19) THEN 3 ELSE 0
        s2 == IF 15 <= w.temp /\ w.temp <= 30 THEN s1 + 2 ELSE s1
        s3 == IF ~w.rain THEN s2 + 2 ELSE s2
        s4 == IF i <= Len(aq) /\ aq[i] <= 100 THEN s3 + 2 ELSE s3
        s5 == IF w.humidity < 70 THEN s4 + 1 ELSE s4
    IN IF Lower(sp) = "cricket" THEN s5 ELSE 0

(* SlotScore with the rain flag read the wrong way round *)
SlotScoreRainInverted(sp, w, i, aq) ==
    LET hour == HourOf(w.time)
        s1 == IF (6 <= hour /\ hour <= 10) \/ (16 <= hour /\ hour <= 19) THEN 3 ELSE 0
        s2 == IF 15 <= w.temp /\ w.temp <= 30 THEN s1 + 2 ELSE s1
        s3 == IF w.rain THEN s2 + 2 ELSE s2
        s4 == IF i <= Len(aq) /\ aq[i] < 100 THEN s3 + 2 ELSE s3
        s5 == IF w.humidity < 70 THEN s4 + 1 ELSE s4
    IN IF Lower(sp) = "cricket" THEN s5 ELSE 0

(* SlotScore giving the AQI bonus also where no AQI entry exists *)
SlotScoreMissingAqiGood(sp, w, i, aq) ==
    LET hour == HourOf(w.time)
        s1 == IF (6 <= hour /\ hour <= 10) \/ (16 <= hour /\ hour <= 19) THEN 3 ELSE 0
        s2 == IF 15 <= w.temp /\ w.temp <= 30 THEN s1 + 2 ELSE s1
        s3 == IF ~w.rain THEN s2 + 2 ELSE s2
        s4 == IF i > Len(aq) \/ aq[i] < 100 THEN s3 + 2 ELSE s3
        s5 == IF w.humidity < 70 THEN s4 + 1 ELSE s4
    IN IF Lower(sp) = "cricket" THEN s5 ELSE 0

(* one pass of the body of the for loop: the score of sample w at index i *)
SlotScore(sp, w, i, aq) ==
    LET hour == HourOf(w.time)
        s0 == 0
        s1 == IF (6 <= hour /\ hour <= 10) \/ (16 <= hour /\ hour <= 19) THEN s0 + 3 ELSE s0
        s2 == IF 15 <= w.temp /\ w.temp <= 30 THEN s1 + 2 ELSE s1
        s3 == IF ~w.rain THEN s2 + 2 ELSE s2
        s4 == IF i <= Len(aq) /\ aq[i] < 100 THEN s3 + 2 ELSE s3
        s5 == IF w.humidity < 70 THEN s4 + 1 ELSE s4
    IN IF Lower(sp) = "cricket" THEN s5 ELSE s0

(* the dict appended to best_slots; idx records enumerate's index *)
MakeSlot(w, i, aq, score) ==
    [idx |-> i, start |-> w.time, end |-> w.time + SlotHours, score |-> score,
     temp |-> w.temp, humidity |-> w.humidity,
     aqi |-> IF i <= Len(aq) THEN aq[i] ELSE NA]

(* an unparseable w['time']: datetime.fromisoformat raises ValueError *)
BadTime == -1
Parseable(t) == t >= 0

(* whether the body of the inner try raises for sample w: the timestamp is
   read for every sport, the other fields only by the cricket rules *)
SlotRaises(sp, w, i, aq) ==
    \/ "time" \notin DOMAIN w
    \/ ~Parseable(w.time)
    \/ Lower(sp) = "cricket" /\ ~({"temp", "rain", "humidity"} \subseteq DOMAIN w)

(* the scores the loop computes, one per sample; NA where the iteration
   raised and was skipped *)
LoopScores(sp, wth, aq) ==
    [i \in 1..Len(wth) |-> IF SlotRaises(sp, wth[i], i, aq) THEN NA
                           ELSE SlotScore(sp, wth[i], i, aq)]

(* an iteration that appends nothing: it raised, or its score is below 4 *)
NoSlot(i) == [idx |-> i, score |-> NA]

(* what each iteration of the loop contributes *)
Candidates(sp, wth, aq) ==
    [i \in 1..Len(wth) |->
        IF SlotRaises(sp, wth[i], i, aq) THEN NoSlot(i)
        ELSE IF SlotScore(sp, wth[i], i, aq) >= MinScore
             THEN MakeSlot(wth[i], i, aq, SlotScore(sp, wth[i], i, aq))
             ELSE NoSlot(i)]

KeepSlot(slot) == slot.score >= MinScore

(* best_slots at the end of the loop: the slots appended, in loop order *)
LoopSlots(sp, wth, aq) == SelectSeq(Candidates(sp, wth, aq), KeepSlot)

(* RankDesc with equal scores in reverse order *)
RankDescTiesReversed(s, i) ==
    1 + Cardinality({j \in 1..Len(s) : s[j].score > s[i].score})
      + Cardinality({j \in 1..Len(s) : j > i /\ s[j].score = s[i].score})

(* the place of s[i] in sorted(s, key=score, reverse=True): after every
   element of a higher score and after the earlier elements of its own score
   (the sort is stable, and reverse=True keeps the order of equal keys) *)
RankDesc(s, i) ==
    1 + Cardinality({j \in 1..Len(s) : s[j].score > s[i].score})
      + Cardinality({j \in 1..Len(s) : j < i /\ s[j].score = s[i].score})

(* sorted(best_slots, key=lambda x: x['score'], reverse=True) *)
SortedDesc(s) == [k \in 1..Len(s) |-> s[CHOOSE i \in 1..Len(s) : RankDesc(s, i) = k]]

(* Truncate keeping one element more *)
TruncateOneMore(s) == SubSeq(s, 1, Min(TopK + 1, Len(s)))

(* [:2] *)
Truncate(s) == SubSeq(s, 1, Min(TopK, Len(s)))

SelectBest(slots) == Truncate(SortedDesc(slots))

(* BestTimeSelectorRun in which a raising sample ends the whole call in the
   outer except branch, which returns [] *)
BestTimeSelectorRunAbortsOnError(sp, wth, aq) ==
    IF \E i \in 1..Len(wth) : SlotRaises(sp, wth[i], i, aq) THEN <<>>
    ELSE LET result == {SelectBest(best_slots) : best_slots \in {LoopSlots(sp, wth, aq)}}
         IN CHOOSE r \in result : TRUE

(* BestTimeSelectorTool._run on parsed input *)
BestTimeSelectorRun(sp, wth, aq) ==
    LET result == {SelectBest(best_slots) : best_slots \in {LoopSlots(sp, wth, aq)}}
    IN CHOOSE r \in result : TRUE

(* ----------------------- inputs of the tool --------------------------- *)
Sample(t, tp, h, r) == [time |-> t, temp |-> tp, humidity |-> h, rain |-> r]

RichSamples == {Sample(t, tp, h, r) : t \in 0..47, tp \in {14, 15, 30, 31},
                                      h \in {69, 70}, r \in BOOLEAN}
CoarseSamples == {Sample(t, tp, 80, r) : t \in {6, 12}, tp \in {25, 35}, r \in BOOLEAN}

ScenarioAWeather == [i \in 1..8 |-> Sample(6 + 3 * (i - 1), 25, 60, FALSE)]
ScenarioAAqi == [i \in 1..8 |-> 90]

RichInputs == {[sport |-> sp, weather |-> <<s>>, aqi |-> a] :
                 sp \in Sports, s \in RichSamples,
                 a \in {<<>>, <<99>>, <<100>>, <<150>>}}
SeqInputs == {[sport |-> sp, weather |-> w, aqi |-> a] :
                 sp \in Sports, w \in SeqsUpTo(CoarseSamples, MaxSamples),
                 a \in SeqsUpTo({90, 150}, MaxAqi)}
ScenarioInputs == {[sport |-> sp, weather |-> ScenarioAWeather, aqi |-> ScenarioAAqi] :
                 sp \in Sports}
ToolInputs == RichInputs \cup SeqInputs \cup ScenarioInputs


(* ------------------- the collaborators' data -------------------------- *)
NoChatId == "None"
ChatIds == {NoChatId, "12345"}

(* WeatherTool._get_mock_weather_data with datetime.now().hour = h *)
MockWeatherData(h) == [i \in 1..8 |-> Sample(h + (i - 1), 25 + (i - 1) * 2, 60 + (i - 1) * 2, FALSE)]

(* the samples of a forecast the weather API answers with *)
ApiSamples == {Sample(t, tp, 80, TRUE) : t \in {6, 12}, tp \in {25, 35}}
ApiWeather == SeqsUpTo(ApiSamples, MaxSamples)

(* the ways WeatherTool._run ends *)
WeatherOutcomes == {"ok", "no_api_key", "401", "non_200", "timeout", "connection_error",
                    "exception"}

(* AQITool._run: the generated series, and the one entry of the except branch *)
AqiToolData == [i \in 1..8 |-> 80 + (i - 1) * 5]
AqiFallbackData == <<90>>
AqiOutcomes == {"ok", "exception"}

(* the ways TelegramTool._run ends *)
TelegramOutcomes == {"Message sent successfully", "Message not sent - no bot token configured",
                     "Message failed to send: status", "Message failed to send: exception"}

(* MotivationTool._run *)
MotivationText(d) ==
    IF d = "weekend" THEN "It's weekend! Perfect time to get active and play some sports!"
    ELSE "Stay active and healthy!"

(* ------------------------ the composer -------------------------------- *)
NoMessage == [kind |-> "none", sport |-> "", city |-> "", lines |-> <<>>,
              avg_temp |-> NA, avg_aqi |-> NA, motivation |-> ""]

RECURSIVE SumSeq(_)
SumSeq(s) == IF s = <<>> THEN 0 ELSE s[1] + SumSeq(Tail(s))

(* format(num / den, ".0f") for num >= 0: nearest integer, a tie to the even one *)
RoundHalfEven(num, den) ==
    LET q == num \div den
        r == num % den
    IN IF 2 * r < den THEN q
       ELSE IF 2 * r > den THEN q + 1
       ELSE IF q % 2 = 0 THEN q ELSE q + 1

Temps(ws) == [i \in 1..Len(ws) |-> ws[i].temp]

(* the message built from the slots and the two series the averages are over;
   avg_temp holds the tenths printed by :.1f, avg_aqi the integer printed by :.0f *)
ComposeFrom(sp, c, best, temps, aqis, motiv) ==
    IF best = <<>> THEN
        [kind |-> "unsuitable", sport |-> sp, city |-> c, lines |-> <<>>,
         avg_temp |-> NA, avg_aqi |-> NA, motivation |-> ""]
    ELSE IF Len(temps) = 0 \/ Len(aqis) = 0 THEN
        [kind |-> "error", sport |-> "", city |-> "", lines |-> <<>>,
         avg_temp |-> NA, avg_aqi |-> NA, motivation |-> ""]
    ELSE
        [kind |-> "best", sport |-> sp, city |-> c,
         lines |-> [k \in 1..Min(2, Len(best)) |->
                       [start |-> HourOf(best[k].start), end |-> HourOf(best[k].end),
                        score |-> best[k].score]],
         avg_temp |-> RoundHalfEven(10 * SumSeq(temps), Len(temps)),
         avg_aqi |-> RoundHalfEven(SumSeq(aqis), Len(aqis)),
         motivation |-> motiv]

(* ComposeMessage averaging over the selected slots only *)
ComposeMessageSelectedOnly(sp, c, best, weather_data, aqi_data, motiv) ==
    ComposeFrom(sp, c, best, [k \in 1..Len(best) |-> best[k].temp],
                [k \in 1..Len(best) |-> IF best[k].aqi = NA THEN 0 ELSE best[k].aqi], motiv)

(* ComposeMessage appending the motivation to the 'not suitable' text too *)
ComposeMessageMotivationAlways(sp, c, best, weather_data, aqi_data, motiv) ==
    [ComposeFrom(sp, c, best, Temps(weather_data), aqi_data, motiv) EXCEPT !.motivation = motiv]

(* ComposeMessage leaving the city out of the 'not suitable' text *)
ComposeMessageNoCity(sp, c, best, weather_data, aqi_data, motiv) ==
    ComposeFrom(sp, IF best = <<>> THEN "" ELSE c, best, Temps(weather_data), aqi_data, motiv)

(* Step 7 of generate_sports_recommendation_direct *)
ComposeMessage(sp, c, best, weather_data, aqi_data, motiv) ==
    ComposeFrom(sp, c, best, Temps(weather_data), aqi_data, motiv)


(* ------------------ the orchestration run (agent.py) ------------------ *)
Steps == <<"ResolveCity", "FetchWeather", "FetchAQI", "ClassifyDay", "ScoreSelect",
           "MaybeFetchMotivation", "Compose", "Deliver">>

StepIndex(st) == CHOOSE k \in 1..Len(Steps) : Steps[k] = st

(* Succ sending a failed delivery once more (a retry inside the run) *)
SuccRetryDelivery(st) ==
    IF st = "Deliver" /\ delivery' = "Message failed to send: status"
                      /\ \A k \in 1..Len(trace) : trace[k] # "Deliver"
    THEN "Deliver"
    ELSE IF StepIndex(st) = Len(Steps) THEN "End" ELSE Steps[StepIndex(st) + 1]

(* the statement after step st in the body of the try block *)
Succ(st) == IF StepIndex(st) = Len(Steps) THEN "End" ELSE Steps[StepIndex(st) + 1]

RunIdle ==
    /\ run_pc = "idle" /\ caller = "none" /\ trace = <<>> /\ calls = <<>>
    /\ city = "" /\ weather_src = "none" /\ aqi_src = "none" /\ day_type = "none"
    /\ motivation = "" /\ message = NoMessage /\ delivery = "none"
    /\ weather = <<>> /\ aqi = <<>> /\ scores = <<>> /\ best_times = <<>>

(* entry of generate_sports_recommendation_direct, called by c *)
StartRun(c) ==
    /\ run_pc' = "ResolveCity" /\ caller' = c /\ trace' = <<>> /\ calls' = <<>>
    /\ city' = "" /\ weather_src' = "none" /\ aqi_src' = "none" /\ day_type' = "none"
    /\ motivation' = "" /\ message' = NoMessage /\ delivery' = "none"
    /\ weather' = <<>> /\ aqi' = <<>> /\ scores' = <<>> /\ best_times' = <<>>

(* the locals of a run that has returned are gone *)
DropRun ==
    /\ run_pc' = "idle" /\ caller' = "none" /\ trace' = <<>> /\ calls' = <<>>
    /\ city' = "" /\ weather_src' = "none" /\ aqi_src' = "none" /\ day_type' = "none"
    /\ motivation' = "" /\ message' = NoMessage /\ delivery' = "none"
    /\ weather' = <<>> /\ aqi' = <<>> /\ scores' = <<>> /\ best_times' = <<>>

Advance(st) ==
    /\ run_pc = st
    /\ trace' = Append(trace, st)
    /\ run_pc' = Succ(st)

(* Step 1: LocationTool._run *)
ResolveCity ==
    /\ Advance("ResolveCity")
    /\ city' = "Mumbai"
    /\ calls' = Append(calls, "get_location")
    /\ UNCHANGED <<procvars, toolvars, caller, weather_src, aqi_src, day_type, motivation,
                   message, delivery>>

(* Step 2: WeatherTool._run, the forecast or the mock data *)
FetchWeather ==
    /\ Advance("FetchWeather")
    /\ \E outcome \in WeatherOutcomes :
          /\ weather_src' = outcome
          /\ IF outcome = "ok"
             THEN \E w \in ApiWeather : weather' = w
             ELSE \E h \in 0..23 : weather' = MockWeatherData(h)
    /\ calls' = Append(calls, "get_hourly_weather")
    /\ UNCHANGED <<procvars, sport, aqi, scores, best_times, tool_pc, caller, city, aqi_src,
                   day_type, motivation, message, delivery>>

(* Step 3: AQITool._run *)
FetchAQI ==
    /\ \E outcome \in AqiOutcomes :
          /\ aqi_src' = outcome
          /\ aqi' = IF outcome = "ok" THEN AqiToolData ELSE AqiFallbackData
    /\ Advance("FetchAQI")
    /\ calls' = Append(calls, "get_hourly_aqi")
    /\ UNCHANGED <<procvars, sport, weather, scores, best_times, tool_pc, caller, city,
                   weather_src, day_type, motivation, message, delivery>>

(* Step 4: DayTypeTool._run *)
ClassifyDay ==
    /\ Advance("ClassifyDay")
    /\ \E d \in {"weekend", "weekday"} : day_type' = d
    /\ calls' = Append(calls, "is_holiday_or_weekend")
    /\ UNCHANGED <<procvars, toolvars, caller, city, weather_src, aqi_src, motivation,
                   message, delivery>>

(* Step 5: BestTimeSelectorTool._run on the combined data *)
ScoreSelect ==
    /\ Advance("ScoreSelect")
    /\ scores' = LoopScores(sport, weather, aqi)
    /\ best_times' = BestTimeSelectorRun(sport, weather, aqi)
    /\ calls' = Append(calls, "choose_best_time")
    /\ UNCHANGED <<procvars, sport, weather, aqi, tool_pc, caller, city, weather_src,
                   aqi_src, day_type, motivation, message, delivery>>

(* Step 6: MotivationTool._run unless the day is a weekday *)
MaybeFetchMotivation ==
    /\ Advance("MaybeFetchMotivation")
    /\ IF day_type # "weekday"
       THEN /\ motivation' = MotivationText(day_type)
            /\ calls' = Append(calls, "get_motivation")
       ELSE /\ motivation' = ""
            /\ calls' = calls
    /\ UNCHANGED <<procvars, toolvars, caller, city, weather_src, aqi_src, day_type,
                   message, delivery>>

(* Step 7: the message; a ZeroDivisionError goes to the except branch, which
   returns the error text without sending it *)
Compose ==
    /\ run_pc = "Compose"
    /\ trace' = Append(trace, "Compose")
    /\ message' = ComposeMessage(sport, city, best_times, weather, aqi, motivation)
    /\ run_pc' = IF message'.kind = "error" THEN "End" ELSE Succ("Compose")
    /\ UNCHANGED <<procvars, toolvars, caller, calls, city, weather_src, aqi_src, day_type,
                   motivation, delivery>>

(* SendsMessage with the test on the chat id inverted *)
SendsMessageInverted(chat) == chat = NoChatId

(* whether Step 8 calls TelegramTool._run *)
SendsMessage(chat) == chat # NoChatId

(* ReturnedMessage turning a failed delivery into an error result *)
ReturnedMessageFailsRun(msg, outcome) ==
    IF outcome \in {"Message failed to send: status", "Message failed to send: exception",
                    "Message not sent - no bot token configured"}
    THEN [kind |-> "error", sport |-> "", city |-> "", lines |-> <<>>,
          avg_temp |-> NA, avg_aqi |-> NA, motivation |-> ""]
    ELSE msg

(* the value of `return message` after Step 8 ended with outcome: the
   result of TelegramTool._run is only logged *)
ReturnedMessage(msg, outcome) == msg

(* Step 8: TelegramTool._run when a chat id is configured *)
Deliver ==
    /\ IF SendsMessage(chat_id)
       THEN /\ \E outcome \in TelegramOutcomes : delivery' = outcome
            /\ calls' = Append(calls, "send_message")
       ELSE /\ delivery' = "No Telegram chat ID configured"
            /\ calls' = calls
    /\ message' = ReturnedMessage(message, delivery')
    /\ Advance("Deliver")
    /\ UNCHANGED <<procvars, toolvars, caller, city, weather_src, aqi_src, day_type,
                   motivation>>

RunStep ==
    \/ ResolveCity \/ FetchWeather \/ FetchAQI \/ ClassifyDay \/ ScoreSelect
    \/ MaybeFetchMotivation \/ Compose \/ Deliver


(* --------------------- the process (main.py) -------------------------- *)
Init ==
    /\ mode \in {"main", "manual"}
    /\ sport \in (IF mode = "main" THEN {"cricket"} ELSE Sports)
    /\ chat_id \in ChatIds
    /\ main_pc = IF mode = "main" THEN "init_agent" ELSE "manual_init"
    /\ sched_pc = "not_started"
    /\ due = FALSE /\ last_job = "none" /\ health = "none"
    /\ tool_pc = "idle"
    /\ RunIdle

(* main(): OutdoorSportsPlannerAgent() succeeds, the test recommendation starts *)
MainInitOk ==
    /\ main_pc = "init_agent"
    /\ main_pc' = "test_run"
    /\ StartRun("main")
    /\ UNCHANGED <<sport, tool_pc, mode, chat_id, sched_pc, due, last_job, health>>

(* main(): the constructor raises; the error is logged and main returns *)
MainInitFail ==
    /\ main_pc = "init_agent"
    /\ main_pc' = "returned"
    /\ UNCHANGED <<toolvars, mode, chat_id, sched_pc, due, last_job, health, runvars>>

(* main(): the test recommendation has returned *)
MainTestDone ==
    /\ main_pc = "test_run" /\ run_pc = "End"
    /\ main_pc' = "start_scheduler"
    /\ DropRun
    /\ UNCHANGED <<sport, tool_pc, mode, chat_id, sched_pc, due, last_job, health>>

(* main(): the scheduler thread is started; run_scheduler registers the job *)
MainStartScheduler ==
    /\ main_pc = "start_scheduler"
    /\ main_pc' = "health_loop"
    /\ sched_pc' = "waiting"
    /\ UNCHANGED <<toolvars, mode, chat_id, due, last_job, health, runvars>>

(* main(): a sixth hourly wake-up constructs an agent as a health check *)
HealthCheck ==
    /\ main_pc = "health_loop"
    /\ \E ok \in BOOLEAN : health' = IF ok THEN "passed" ELSE "warning"
    /\ UNCHANGED <<toolvars, mode, chat_id, main_pc, sched_pc, due, last_job, runvars>>

(* the clock reaches 06:00 while the job waits for its next run *)
ClockReaches0600 ==
    /\ sched_pc = "waiting" /\ ~due
    /\ due' = TRUE
    /\ UNCHANGED <<toolvars, mode, chat_id, main_pc, sched_pc, last_job, health, runvars>>

(* run_scheduler: run_pending() finds the job due and calls
   daily_sports_notification *)
SchedulerTick ==
    /\ sched_pc = "waiting" /\ due
    /\ due' = FALSE
    /\ sched_pc' = "job_init"
    /\ last_job' = "running"
    /\ UNCHANGED <<toolvars, mode, chat_id, main_pc, health, runvars>>

(* daily_sports_notification: the agent is constructed, the run starts *)
JobInitOk ==
    /\ sched_pc = "job_init"
    /\ sched_pc' = "job_run"
    /\ StartRun("scheduler")
    /\ UNCHANGED <<sport, tool_pc, mode, chat_id, main_pc, due, last_job, health>>

(* the loop of run_scheduler after a job whose constructor raised *)
AfterJobInitFailDead == "dead"

(* the loop of run_scheduler after a job whose constructor raised: the
   exception was caught inside daily_sports_notification *)
AfterJobInitFail == "waiting"

(* daily_sports_notification: the constructor raises; logged, the run skipped *)
JobInitFail ==
    /\ sched_pc = "job_init"
    /\ sched_pc' = AfterJobInitFail
    /\ last_job' = "init_failed"
    /\ UNCHANGED <<toolvars, mode, chat_id, main_pc, due, health, runvars>>

(* daily_sports_notification: the run has returned its message *)
JobReturn ==
    /\ sched_pc = "job_run" /\ run_pc = "End"
    /\ sched_pc' = "waiting"
    /\ last_job' = "completed"
    /\ DropRun
    /\ UNCHANGED <<sport, tool_pc, mode, chat_id, main_pc, due, health>>

(* manual_recommendation(sport): the agent is constructed, the run starts *)
ManualInitOk ==
    /\ main_pc = "manual_init"
    /\ main_pc' = "manual_run"
    /\ StartRun("manual")
    /\ UNCHANGED <<sport, tool_pc, mode, chat_id, sched_pc, due, last_job, health>>

(* manual_recommendation(sport): the constructor raises, "Error: ..." is returned *)
ManualInitFail ==
    /\ main_pc = "manual_init"
    /\ main_pc' = "manual_error"
    /\ UNCHANGED <<toolvars, mode, chat_id, sched_pc, due, last_job, health, runvars>>

(* manual_recommendation(sport): the run's message is returned *)
ManualReturn ==
    /\ main_pc = "manual_run" /\ run_pc = "End"
    /\ main_pc' = "manual_done"
    /\ run_pc' = "idle"
    /\ UNCHANGED <<toolvars, mode, chat_id, sched_pc, due, last_job, health, caller, trace,
                   calls, city, weather_src, aqi_src, day_type, motivation, message, delivery>>

MainStep == MainInitOk \/ MainInitFail \/ MainTestDone \/ MainStartScheduler
ManualStep == ManualInitOk \/ ManualInitFail \/ ManualReturn
SchedulerStep == SchedulerTick \/ JobInitOk \/ JobInitFail \/ JobReturn

Next == MainStep \/ ManualStep \/ HealthCheck \/ ClockReaches0600 \/ SchedulerStep \/ RunStep

Spec == Init /\ [][Next]_vars

(* every thread keeps running, and the clock keeps reaching 06:00 *)
FairSpec ==
    /\ Spec
    /\ WF_vars(MainStep) /\ WF_vars(ManualStep)
    /\ WF_vars(ClockReaches0600) /\ WF_vars(SchedulerStep) /\ WF_vars(RunStep)

InitTool ==
    /\ \E inp \in ToolInputs :
          /\ sport = inp.sport
          /\ weather = inp.weather
          /\ aqi = inp.aqi
    /\ scores = <<>>
    /\ best_times = <<>>
    /\ tool_pc = "call"
    /\ mode = "tool" /\ chat_id = NoChatId /\ main_pc = "none" /\ sched_pc = "not_started"
    /\ due = FALSE /\ last_job = "none" /\ health = "none"
    /\ run_pc = "idle" /\ caller = "none" /\ trace = <<>> /\ calls = <<>>
    /\ city = "" /\ weather_src = "none" /\ aqi_src = "none" /\ day_type = "none"
    /\ motivation = "" /\ message = NoMessage /\ delivery = "none"

ToolRun ==
    /\ tool_pc = "call"
    /\ scores' = LoopScores(sport, weather, aqi)
    /\ best_times' = BestTimeSelectorRun(sport, weather, aqi)
    /\ tool_pc' = "returned"
    /\ UNCHANGED <<sport, weather, aqi, procvars, runvars>>

NextTool == ToolRun

(* the program entered either way: the process, or a direct call of the tool *)
InitProgram == Init \/ InitTool
NextProgram == Next \/ NextTool
SpecProgram == InitProgram /\ [][NextProgram]_vars

(* inputs of the tool with malformed samples among the well-formed ones *)
GoodSamples == {Sample(t, 25, 80, r) : t \in {6, 12}, r \in BOOLEAN}
MalformedSamples == {Sample(BadTime, 25, 60, FALSE),
                     [time |-> 6, humidity |-> 60, rain |-> FALSE],
                     [temp |-> 25, humidity |-> 60, rain |-> FALSE]}
MalformedInputs ==
    {[sport |-> sp, weather |-> w, aqi |-> a] :
        sp \in Sports,
        w \in {q \in SeqsUpTo(GoodSamples \cup MalformedSamples, MaxSamples) :
                 \E k \in 1..Len(q) : q[k] \in MalformedSamples},
        a \in SeqsUpTo({90, 150}, MaxAqi)}

InitToolMalformed ==
    /\ \E inp \in MalformedInputs :
          /\ sport = inp.sport
          /\ weather = inp.weather
          /\ aqi = inp.aqi
    /\ scores = <<>>
    /\ best_times = <<>>
    /\ tool_pc = "call"
    /\ mode = "tool" /\ chat_id = NoChatId /\ main_pc = "none" /\ sched_pc = "not_started"
    /\ due = FALSE /\ last_job = "none" /\ health = "none"
    /\ run_pc = "idle" /\ caller = "none" /\ trace = <<>> /\ calls = <<>>
    /\ city = "" /\ weather_src = "none" /\ aqi_src = "none" /\ day_type = "none"
    /\ motivation = "" /\ message = NoMessage /\ delivery = "none"

SpecToolMalformed == InitToolMalformed /\ [][NextTool]_vars

SpecTool == InitTool /\ [][NextTool]_vars

(* ------------------- claims about the tool ---------------------------- *)
Returned == tool_pc = "returned"
Bit(b) == IF b THEN 1 ELSE 0
PreferredHours == {6, 7, 8, 9, 10, 16, 17, 18, 19}
GoodHour(i) == HourOf(weather[i].time) \in PreferredHours
GoodTemp(i) == weather[i].temp \in 15..30
Dry(i) == weather[i].rain = FALSE
GoodAqi(i) == i \in DOMAIN aqi /\ aqi[i] \in 0..99
LowHumidity(i) == weather[i].humidity \in 0..69
RuleSum(i) == 3 * Bit(GoodHour(i)) + 2 * Bit(GoodTemp(i)) + 2 * Bit(Dry(i))
              + 2 * Bit(GoodAqi(i)) + 1 * Bit(LowHumidity(i))

(* C1: for sport 'cricket' the score of every sample is the sum of the five
   rule contributions (3 hour, 2 temperature, 2 no rain, 2 AQI present and
   below 100, 1 humidity below 70), lies in 0..10, and is 10 exactly when all
   five conditions hold. *)
C1_ScoreIsRuleSum ==
    (Returned /\ sport = "cricket") =>
        /\ Len(scores) = Len(weather)
        /\ \A i \in 1..Len(weather) :
              /\ scores[i] = RuleSum(i)
              /\ scores[i] \in 0..10
              /\ (scores[i] = 10) <=>
                    (GoodHour(i) /\ GoodTemp(i) /\ Dry(i) /\ GoodAqi(i) /\ LowHumidity(i))

C1_Witness ==
    /\ Returned /\ sport = "cricket" /\ Len(weather) = 1
    /\ scores[1] = 10 /\ aqi = <<99>> /\ weather[1].temp = 30

Eligible == {i \in 1..Len(scores) : scores[i] >= 4}
Before(k, i) ==
    \/ best_times[k].score > scores[i]
    \/ best_times[k].score = scores[i] /\ best_times[k].idx < i
Chosen == {best_times[k].idx : k \in 1..Len(best_times)}

(* C2: the returned list is the first 2 of the stable descending-by-score
   order of the candidates scoring >= 4: at most 2 entries, none below 4,
   score 4 eligible, scores non-increasing, equal scores in original order,
   and no left-out candidate ranks before a returned one. *)
C2_SelectTopTwoStable ==
    Returned =>
        /\ Len(best_times) = Min(2, Cardinality(Eligible))
        /\ \A k \in 1..Len(best_times) :
              /\ best_times[k].idx \in Eligible
              /\ best_times[k].score = scores[best_times[k].idx]
              /\ best_times[k].score >= 4
        /\ \A k, l \in 1..Len(best_times) : k < l => Before(k, best_times[l].idx)
        /\ \A i \in Eligible \ Chosen : \A k \in 1..Len(best_times) : Before(k, i)

C2_Witness ==
    /\ Returned /\ Cardinality(Eligible) = 3 /\ Len(best_times) = 2
    /\ best_times[1].idx = 2
    /\ best_times[2].idx = 1 /\ best_times[2].score = 4
    /\ scores[3] = 4

(* C3: for a sport that is not 'cricket' the scores and the selected slots
   equal those obtained for 'cricket' on the same samples. *)
C3_FallbackToCricket ==
    (Returned /\ sport = "football") =>
        /\ scores = LoopScores("cricket", weather, aqi)
        /\ best_times = BestTimeSelectorRun("cricket", weather, aqi)

AllRainBadAir ==
    /\ Len(weather) >= 1
    /\ \A i \in 1..Len(weather) :
          weather[i].rain /\ i \in DOMAIN aqi /\ aqi[i] >= 150

(* C4 as stated: with rain and AQI >= 150 on every sample, every score <= 4. *)
C4_RainBadAirAtMostFour ==
    (Returned /\ AllRainBadAir) => \A i \in 1..Len(scores) : scores[i] <= 4

(* C4 amended: with rain and AQI >= 150 on every sample, every score is at
   most 6 (time of day 3 + temperature 2 + humidity 1), the rain and AQI
   bonuses never being given. *)
C4_RainBadAirAtMostSix ==
    (Returned /\ AllRainBadAir) =>
        \A i \in 1..Len(scores) :
            /\ scores[i] <= 6
            /\ sport = "cricket" =>
                  scores[i] = 3 * Bit(GoodHour(i)) + 2 * Bit(GoodTemp(i)) + Bit(LowHumidity(i))

C4_Witness ==
    /\ Returned /\ AllRainBadAir /\ sport = "cricket"
    /\ \E i \in 1..Len(scores) : scores[i] = 6

(* C9: scenario A (8 samples at hours 6,9,12,15,18,21,0,3, 25 degrees,
   humidity 60, dry, AQI 90): hours 6, 9 and 18 score >= 9, the others less,
   and exactly the slots of hour 6 and hour 9 are returned, hour 6 first. *)
C9_ScenarioA ==
    (Returned /\ sport = "cricket" /\ weather = ScenarioAWeather /\ aqi = ScenarioAAqi) =>
        /\ \A i \in 1..8 : (scores[i] >= 9) <=> (HourOf(weather[i].time) \in {6, 9, 18})
        /\ <<HourOf(weather[7].time), HourOf(weather[8].time)>> = <<0, 3>>
        /\ Len(best_times) = 2
        /\ HourOf(best_times[1].start) = 6
        /\ HourOf(best_times[2].start) = 9

C9_Witness ==
    /\ Returned /\ sport = "cricket" /\ weather = ScenarioAWeather /\ aqi = ScenarioAAqi
    /\ Len(best_times) > 0

(* ------------- claims about the run and the process ------------------- *)
Called(tool) == \E k \in 1..Len(calls) : calls[k] = tool
Visited(st) == \E k \in 1..Len(trace) : trace[k] = st
Composed == run_pc \in {"Deliver", "End"}
BothSourcesFailed == weather_src \notin {"none", "ok"} /\ aqi_src = "exception"

(* C5 as stated: when the weather and the AQI source both fail, the run still
   returns a recommendation (no error text) and TelegramTool._run is called. *)
C5_BothFailStillSends ==
    (run_pc = "End" /\ BothSourcesFailed) =>
        /\ message.kind \in {"best", "unsuitable"}
        /\ Called("send_message")

(* C5 amended: when the weather and the AQI source both fail, the run scores
   the 8 mock weather samples against the one fallback AQI entry, returns a
   recommendation (no error text; for cricket one that lists slots), and
   reaches the Deliver step, where TelegramTool._run is called exactly when a
   chat id is configured. *)
C5_BothFailStillDelivers ==
    (run_pc = "End" /\ BothSourcesFailed) =>
        /\ \E h \in 0..23 : weather = MockWeatherData(h)
        /\ aqi = <<90>>
        /\ Len(scores) = 8
        /\ message.kind \in {"best", "unsuitable"}
        /\ Lower(sport) = "cricket" => (message.kind = "best" /\ Len(message.lines) = 2)
        /\ Visited("Deliver")
        /\ Called("send_message") <=> chat_id # NoChatId

C5_Witness ==
    /\ run_pc = "End" /\ weather_src = "timeout" /\ aqi_src = "exception"
    /\ chat_id # NoChatId /\ Called("send_message") /\ message.kind = "best"

SchedulerAlive == sched_pc \in {"waiting", "job_init", "job_run"}

(* C6 as stated: after any failure to construct the agent, the one at startup
   in main() included, the scheduler loop is running. *)
C6_SchedulerRunsAfterAnyInitFailure ==
    (mode = "main" /\ (main_pc = "returned" \/ last_job = "init_failed")) => SchedulerAlive

(* C6 amended: when constructing the agent fails inside a scheduled run
   (daily_sports_notification), the failure is logged, that run is skipped
   and the scheduler loop keeps waiting, so that a later 06:00 trigger
   attempts a new run; when it fails at startup in main(), main logs it and
   returns before the scheduler thread is ever started. *)
C6_ScheduledInitFailureSkipsRun ==
    /\ [](last_job = "init_failed" => (sched_pc = "waiting" /\ run_pc = "idle"))
    /\ [](main_pc = "returned" => (sched_pc = "not_started" /\ run_pc = "idle"))
    /\ (last_job = "init_failed") ~> (sched_pc = "job_init")

C6_Witness ==
    /\ last_job = "init_failed" /\ sched_pc = "waiting" /\ due /\ main_pc = "health_loop"

Abs(x) == IF x < 0 THEN -x ELSE x
(* r is num / den rounded to the nearest integer, a tie going to the even one *)
IsRounded(r, num, den) ==
    /\ 2 * Abs(num - r * den) <= den
    /\ 2 * Abs(num - r * den) = den => r % 2 = 0
(* the totals, counted as the unit squares under each series *)
TotalTemp == Cardinality({p \in (1..Len(weather)) \X (1..50) : p[2] <= weather[p[1]].temp})
TotalAqi == Cardinality({p \in (1..Len(aqi)) \X (1..200) : p[2] <= aqi[p[1]]})
SelectedTemp == Cardinality({p \in (1..Len(best_times)) \X (1..50) : p[2] <= best_times[p[1]].temp})

(* C7: whenever the selected list is not empty, the message reports the mean
   temperature (one decimal) and the mean AQI (nearest integer) over all
   fetched weather samples and all fetched AQI entries, whichever slots were
   selected. *)
C7_MeansOverAllSamples ==
    (Composed /\ best_times # <<>>) =>
        /\ message.kind = "best"
        /\ IsRounded(message.avg_temp, 10 * TotalTemp, Len(weather))
        /\ IsRounded(message.avg_aqi, TotalAqi, Len(aqi))

C7_Witness ==
    /\ run_pc = "End" /\ message.kind = "best"
    /\ Len(weather) = 3 /\ Len(best_times) = 2
    /\ ~IsRounded(message.avg_temp, 10 * SelectedTemp, Len(best_times))
    /\ \E i \in 1..3 : i \notin {best_times[1].idx, best_times[2].idx} /\ weather[i].temp = 35

(* C8: whenever the selected list is empty, the message is the 'not suitable,
   consider indoor alternatives' text, it names the sport and the city, it
   has no slot line (no time range, no score), and it is no error result: the
   run goes on to deliver it. *)
C8_EmptySelectionMessage ==
    (Composed /\ best_times = <<>>) =>
        /\ message.kind = "unsuitable"
        /\ message.sport = sport /\ message.sport \in Sports
        /\ message.city = "Mumbai"
        /\ message.lines = <<>>

C8_Witness ==
    /\ run_pc = "End" /\ best_times = <<>> /\ sport = "cricket" /\ Len(weather) = 2
    /\ message.kind = "unsuitable" /\ Visited("Deliver")

ToolOrder == <<"get_location", "get_hourly_weather", "get_hourly_aqi", "is_holiday_or_weekend",
               "choose_best_time", "get_motivation", "send_message">>
ToolIndex(t) == CHOOSE k \in 1..Len(ToolOrder) : ToolOrder[k] = t

(* C10: every run executes ResolveCity, FetchWeather, FetchAQI, ClassifyDay,
   Score&Select, MaybeFetchMotivation, Compose, Deliver in this order, each
   at most once, calls each collaborator at most once and in that order, and
   always reaches End. *)
C10_StepsInOrderToEnd ==
    /\ [](/\ Len(trace) <= Len(Steps)
          /\ \A k \in 1..Len(trace) : trace[k] = Steps[k])
    /\ [](\A k, l \in 1..Len(calls) : k < l => ToolIndex(calls[k]) < ToolIndex(calls[l]))
    /\ []((run_pc = "End" /\ message.kind # "error") => trace = Steps)
    /\ (run_pc = "ResolveCity") ~> (run_pc = "End")

C10_Witness ==
    /\ run_pc = "End" /\ trace = Steps /\ caller = "scheduler"
    /\ weather_src = "401" /\ aqi_src = "exception" /\ day_type = "weekend"
    /\ best_times # <<>> /\ delivery = "Message failed to send: exception"

DeliveryFailures == {"Message not sent - no bot token configured",
                     "Message failed to send: status", "Message failed to send: exception"}

(* C11: a delivery failure does not fail the run: whatever Step 8 does
   (sent, failure status, exception caught inside the tool, no chat id), the
   run returns the recommendation composed in Step 7, never an error
   result. *)
C11_DeliveryFailureKeepsMessage ==
    (run_pc = "End" /\ Visited("Deliver")) =>
        /\ message = ComposeMessage(sport, city, best_times, weather, aqi, motivation)
        /\ message.kind \in {"best", "unsuitable"}
        /\ delivery \in TelegramOutcomes \cup {"No Telegram chat ID configured"}

C11_Witness ==
    /\ run_pc = "End" /\ delivery = "Message failed to send: exception"
    /\ message.kind = "best" /\ Len(message.lines) = 2 /\ weather_src = "ok"

(* C13: the motivation tool is called only when the day is not a weekday;
   the message carries the motivation paragraph exactly when the day is not
   a weekday and the selected list is not empty; on a weekday the tool is
   never called and the message has no motivation text. *)
C13_MotivationOnlyOffWeekdays ==
    /\ Called("get_motivation") => day_type = "weekend"
    /\ Visited("MaybeFetchMotivation") => (Called("get_motivation") <=> day_type # "weekday")
    /\ Composed =>
          /\ (message.motivation # "") <=> (day_type # "weekday" /\ best_times # <<>>)
          /\ message.motivation # "" => message.motivation = MotivationText(day_type)
          /\ day_type = "weekday" => (~Called("get_motivation") /\ message.motivation = "")

C13_Witness ==
    /\ run_pc = "End" /\ day_type = "weekend" /\ best_times = <<>>
    /\ Called("get_motivation") /\ message.motivation = "" /\ sport = "cricket"

WellFormed(i) ==
    /\ DOMAIN weather[i] = {"time", "temp", "humidity", "rain"}
    /\ weather[i].time \in Nat
(* a well-formed sample that no AQI value lifts to the threshold *)
NeutralSample == Sample(12, 35, 80, TRUE)
Neutralized == [i \in 1..Len(weather) |-> IF WellFormed(i) THEN weather[i] ELSE NeutralSample]

(* C12: a malformed sample (unparseable timestamp or missing field)
   contributes no candidate and its error is not propagated; every other
   sample is scored as if the malformed one were not considered, at its own
   position and with the AQI entry of its own index; the tool returns its
   list, which is the selection among the well-formed samples. *)
C12_MalformedSampleSkipped ==
    Returned =>
        /\ Len(scores) = Len(weather)
        /\ \A i \in 1..Len(weather) :
              /\ ~WellFormed(i) => (i \notin Chosen /\ i \notin Eligible)
              /\ (WellFormed(i) /\ sport = "cricket") => scores[i] = RuleSum(i)
        /\ best_times = BestTimeSelectorRun(sport, Neutralized, aqi)
        /\ Len(best_times) = Min(2, Cardinality({i \in Eligible : WellFormed(i)}))

C12_Witness ==
    /\ Returned /\ sport = "cricket" /\ Len(weather) = 3 /\ aqi = <<150, 90>>
    /\ ~WellFormed(1) /\ WellFormed(2) /\ ~WellFormed(3)
    /\ "temp" \notin DOMAIN weather[3]
    /\ Len(best_times) = 1 /\ best_times[1].idx = 2 /\ best_times[1].aqi = 90
    /\ best_times[1].score = 4

Scored == Returned \/ run_pc \in {"MaybeFetchMotivation", "Compose", "Deliver", "End"}
NoAqiAt(i) == i \in 1..Len(weather) /\ i \notin DOMAIN aqi
FourRuleSum(i) == 3 * Bit(GoodHour(i)) + 2 * Bit(GoodTemp(i)) + 2 * Bit(Dry(i))
                  + Bit(LowHumidity(i))

(* C14: when the AQI sequence is shorter than the weather sequence (empty
   included), a sample at an index without AQI entry is scored on the other
   four rules (at most 8, no AQI bonus), stays eligible for selection (its
   slot showing 'N/A' as AQI), and the run ends with a recommendation
   message, not an error result. *)
C14_ShortAqiStillScored ==
    /\ Scored =>
          \A i \in 1..Len(weather) : NoAqiAt(i) =>
              /\ scores[i] \in 0..8
              /\ sport = "cricket" => scores[i] = FourRuleSum(i)
              /\ scores[i] >= 4 =>
                    \/ i \in Chosen
                    \/ Len(best_times) = 2 /\ \A k \in 1..2 : Before(k, i)
              /\ \A k \in 1..Len(best_times) : best_times[k].idx = i => best_times[k].aqi = NA
    /\ (Composed /\ Len(aqi) < Len(weather)) =>
          /\ message.kind \in {"best", "unsuitable"}
          /\ message.kind = "best" <=> best_times # <<>>

C14_Witness ==
    /\ run_pc = "End" /\ aqi = <<90>> /\ Len(weather) = 8 /\ sport = "cricket"
    /\ message.kind = "best"
    /\ best_times[1].idx = 2 /\ best_times[1].aqi = NA /\ best_times[1].score = 8

====
